---- MODULE Spec2Model ----
(***************************************************************************)
(* Order Service (src/app.py): the create_order saga.                      *)
(*                                                                         *)
(* One request handler run is a coroutine that suspends at every           *)
(* `await call_service(...)`.  An action of this model is the code that    *)
(* runs between two suspensions: a downstream call returns (with one of    *)
(* the outcomes call_service can produce), the handler runs up to the next *)
(* call it issues, or up to its return / raise.                            *)
(*                                                                         *)
(* The downstream services are the environment.  The order store (the      *)
(* database service) is modelled as a map oid -> record that a successful  *)
(* POST/PUT overwrites and a failed one leaves alone; the other services   *)
(* are modelled by the responses they can give.                            *)
(*                                                                         *)
(* Not modelled: userId, address, items, total and currency of the order   *)
(* (copied from the payload at lines 87-101 and never changed afterwards). *)
(***************************************************************************)
EXTENDS Integers, Sequences, FiniteSets, TLC

\* Number of create_order requests the clients send in one behaviour.
MaxRequests == 3

Runs == 1..MaxRequests

\* Python's None.
None == "None"

\* Values a client may send in the X-Idempotency-Key header (None: no header).
Keys == {"k1", "k2"}
KeyInputs == Keys \cup {None}

----------------------------------------------------------------------------
(* call_service and the responses of the downstream services               *)

\* A successful (2xx) response; body as parsed by resp.json() (line 72-74).
\* is_dict: the body is a JSON object; id/status/detail: its fields (None
\* when absent); status_is_str: the "status" field is a string.
OkBody(is_dict, id, status, status_is_str, detail) ==
    [kind |-> "ok", code |-> 200, json_detail |-> detail, text |-> "",
     is_dict |-> is_dict, id |-> id, status |-> status, status_is_str |-> status_is_str]

\* resp.raise_for_status() raised httpx.HTTPStatusError (line 71).
\* json_detail: the "detail" field of a JSON object body, None when the body
\* is not a JSON object or has no such field; text: the raw body.
StatusError(code, json_detail, text) ==
    [kind |-> "status", code |-> code, json_detail |-> json_detail, text |-> text,
     is_dict |-> FALSE, id |-> None, status |-> None, status_is_str |-> FALSE]

\* Any other exception out of call_service: no response (timeout, refused
\* connection: httpx.RequestError, line 70) or an unparsable 2xx body (line 73).
OtherError(msg) ==
    [kind |-> "error", code |-> 0, json_detail |-> None, text |-> msg,
     is_dict |-> FALSE, id |-> None, status |-> None, status_is_str |-> FALSE]

StatusErrors ==
    { StatusError(409, "Insufficient stock", "{detail: Insufficient stock}"),
      StatusError(422, None, "Unprocessable"),
      StatusError(503, None, "Service Unavailable") }

OtherErrors == { OtherError("ReadTimeout") }

Faults == StatusErrors \cup OtherErrors

\* Responses whose body the handler does not read (store, release, refund, commit).
Plain == { OkBody(FALSE, None, None, FALSE, None) }

ReserveResponses ==
    { OkBody(TRUE, "res-1", None, FALSE, None),     \* {"id": "res-1"}
      OkBody(TRUE, None, None, FALSE, None),        \* {} : no id
      OkBody(FALSE, None, None, FALSE, None) }      \* not a JSON object

PaymentResponses ==
    { OkBody(TRUE, "pay-1", "completed", TRUE, None),
      OkBody(TRUE, None, "SUCCESS", TRUE, None),
      OkBody(TRUE, "pay-1", "declined", TRUE, "Card declined"),
      OkBody(TRUE, "pay-1", None, FALSE, None),     \* no "status" field
      OkBody(TRUE, "pay-1", "7", FALSE, None),      \* "status" is not a string
      OkBody(FALSE, None, None, FALSE, None) }      \* not a JSON object

ShipmentResponses ==
    { OkBody(TRUE, "shp-1", None, FALSE, None),
      OkBody(TRUE, None, None, FALSE, None),
      OkBody(FALSE, None, None, FALSE, None) }

\* str.lower() on the values above.
Lower(s) ==
    CASE s = "SUCCESS" -> "success"
      [] s = "COMPLETED" -> "completed"
      [] OTHER -> s

\* str(e) of an exception raised by call_service.
StrOf(e) == IF e.kind = "status" THEN "HTTPStatusError" ELSE e.text

----------------------------------------------------------------------------
(* State                                                                   *)

VARIABLES
    IDEMPOTENCY,   \* line 50: Idempotency-Key -> orderId (process-wide dict)
    store,         \* the order store behind DATABASE_SERVICE_URL: oid -> order
    frame,         \* per request: the locals of create_order and where it is suspended
    response,      \* per request: what the caller receives
    calls,         \* per request: number of downstream calls issued, by kind (history)
    hist,          \* per request: what the forward calls returned (history)
    keylog         \* per key: writes of IDEMPOTENCY[key] and the first oid written (history)

vars == <<IDEMPOTENCY, store, frame, response, calls, hist, keylog>>

\* The order dict built at lines 87-101, with the keys later lines may add.
NewOrder(oid) ==
    [id |-> oid, status |-> "created", reservationId |-> None,
     paymentIntentId |-> None, shipmentId |-> None, refund_attempt |-> <<>>]

NoOrder == [NewOrder(0) EXCEPT !.status = None]

NoResponse == [status_code |-> 0, detail |-> <<>>, body |-> NoOrder]

NoCall == [kind |-> "none", code |-> 0, json_detail |-> None, text |-> "",
           is_dict |-> FALSE, id |-> None, status |-> None, status_is_str |-> FALSE]

InitFrame ==
    [pc |-> "idle", x_idempotency_key |-> None, oid |-> 0, order |-> NoOrder,
     reservation_id |-> None, payment_id |-> None, shipment_id |-> None,
     status |-> 0, upstream_detail |-> None,
     pay_resp |-> NoCall, refund_success |-> FALSE, refund_error |-> None, e |-> None]

InitCalls ==
    [create |-> 0, get |-> 0, put |-> 0, reserve |-> 0, payment |-> 0,
     shipment |-> 0, release |-> 0, refund |-> 0, commit |-> 0]

InitHist ==
    [replay |-> FALSE, persisted |-> FALSE,
     reserve |-> NoCall, payment |-> NoCall, shipment |-> NoCall,
     refund |-> "none", put |-> "none", final_put |-> "none",
     commit |-> "none"]

Init ==
    /\ IDEMPOTENCY = <<>>
    /\ store = <<>>
    /\ frame = [r \in Runs |-> InitFrame]
    /\ response = [r \in Runs |-> NoResponse]
    /\ calls = [r \in Runs |-> InitCalls]
    /\ hist = [r \in Runs |-> InitHist]
    /\ keylog = [k \in Keys |-> [writes |-> 0, first_oid |-> 0]]

----------------------------------------------------------------------------
(* Pure pieces of create_order                                             *)

\* Python truthiness of an Optional[str] (lines 79, 107, 157, 203, 248...).
Truthy(x) == x # None /\ x # ""

\* Line 79: the idempotency check.
IdempotencyHit(idem, key) == Truthy(key) /\ key \in DOMAIN idem

\* Line 108: IDEMPOTENCY[x_idempotency_key] = oid.
IdempotencyRecord(idem, key, oid) == (key :> oid) @@ idem

\* Lines 123-127 (and 145-149, 194-198, 210-213): detail of an HTTPStatusError.
UpstreamDetail(e) == IF e.json_detail # None THEN e.json_detail ELSE e.text

\* StepError with the 4xx pass-through of lines 136-137 and 163-164 left out.
StepError_AlwaysGateway(service, status, upstream_detail) ==
    [status_code |-> 502,
     detail |-> <<"Upstream error from ", service, " service: ", upstream_detail>>,
     body |-> NoOrder]

\* Lines 136-138 and 163-165: the HTTPException raised for a failed step.
StepError(service, status, upstream_detail) ==
    IF 400 <= status /\ status < 500
    THEN [status_code |-> status, detail |-> <<upstream_detail>>, body |-> NoOrder]
    ELSE [status_code |-> 502,
          detail |-> <<"Upstream error from ", service, " service: ", upstream_detail>>,
          body |-> NoOrder]

\* Line 121: reservation_id = inv_resp.get("id") if isinstance(inv_resp, dict) else None.
ReservationIdOf(inv_resp) == IF inv_resp.is_dict THEN inv_resp.id ELSE None

\* Line 169: pstatus = pay_resp.get("status", "").lower()  (for a string status).
PStatusOf(pay_resp) == IF pay_resp.status = None THEN "" ELSE Lower(pay_resp.status)

\* Line 172: the business-success test.
PaymentSucceeded(pstatus) == pstatus \in {"completed", "success"}

\* Line 185: the HTTPException for a declined payment.
PaymentDeclined(pay_resp, pstatus) ==
    [status_code |-> 402,
     detail |-> IF pay_resp.json_detail # None
                THEN <<pay_resp.json_detail>>
                ELSE <<"Payment failed (status=", pstatus, ")">>,
     body |-> NoOrder]

\* Line 188: ship_payload["id"] = str(uuid.uuid4()).
ShipPayloadId == "uuid-ship"

\* Line 191: shipment_id = ship_resp.get("id") if isinstance(ship_resp, dict) else ship_payload["id"].
ShipmentIdOf(ship_resp) == IF ship_resp.is_dict THEN ship_resp.id ELSE ShipPayloadId

\* Lines 238-244: the HTTPException for a failed shipment.
ShippingError(upstream_detail, refund_success, refund_error) ==
    [status_code |-> 502,
     detail |-> IF refund_success
                THEN <<"Shipping failed: ", upstream_detail, ". Payment refunded.">>
                ELSE <<"Shipping failed: ", upstream_detail, ". Refund attempt failed: ",
                       refund_error, ". Manual reconciliation required.">>,
     body |-> NoOrder]

\* Lines 218-223: the order as marked after the refund attempt.
MarkFailedShipping(order, payment_id, refund_success, refund_error) ==
    IF Truthy(payment_id)
    THEN [order EXCEPT !.status = "failed_shipping",
                       !.paymentIntentId = payment_id,
                       !.refund_attempt = <<[success |-> refund_success, error |-> refund_error]>>]
    ELSE [order EXCEPT !.status = "failed_shipping"]

\* MarkCompleted with lines 252-253 (the shipment marker) left out.
MarkCompleted_NoShipment(order, reservation_id, payment_id, shipment_id) ==
    [order EXCEPT !.status = "completed",
                  !.reservationId = IF Truthy(reservation_id) THEN reservation_id ELSE @,
                  !.paymentIntentId = IF Truthy(payment_id) THEN payment_id ELSE @]

\* Lines 247-253: the order as marked when all three steps succeeded.
MarkCompleted(order, reservation_id, payment_id, shipment_id) ==
    [order EXCEPT !.status = "completed",
                  !.reservationId = IF Truthy(reservation_id) THEN reservation_id ELSE @,
                  !.paymentIntentId = IF Truthy(payment_id) THEN payment_id ELSE @,
                  !.shipmentId = IF Truthy(shipment_id) THEN shipment_id ELSE @]

\* Line 285: raise HTTPException(500, detail=f"Finalization failed: {e}").
FinalizationError(e) ==
    [status_code |-> 500, detail |-> <<"Finalization failed: ", e>>, body |-> NoOrder]

\* An exception that leaves create_order uncaught (lines 83, 105): the
\* framework answers 500.
Unhandled == [status_code |-> 500, detail |-> <<"Internal Server Error">>, body |-> NoOrder]

\* Line 287 (and 84): the 201 response carrying the order.
Created(order) == [status_code |-> 201, detail |-> <<>>, body |-> order]

\* A successful POST /orders or PUT /orders/{oid} at the order store.
StoreWrite(db, oid, order) == (oid :> order) @@ db

----------------------------------------------------------------------------
(* Steps of create_order: from one await to the next                       *)

\* The handler of request r goes on to frame f, issuing downstream call `call`.
Await(r, f, call, h) ==
    /\ frame' = [frame EXCEPT ![r] = f]
    /\ calls' = [calls EXCEPT ![r][call] = @ + 1]
    /\ hist' = [hist EXCEPT ![r] = h]
    /\ UNCHANGED response

\* The handler of request r ends: it returns or raises, the caller gets rsp.
Respond(r, f, rsp, h) ==
    /\ frame' = [frame EXCEPT ![r] = [f EXCEPT !.pc = "done"]]
    /\ response' = [response EXCEPT ![r] = rsp]
    /\ hist' = [hist EXCEPT ![r] = h]
    /\ UNCHANGED calls

\* Fallback with line 268 (order["status"] = "cancelled") left out.
Fallback_KeepsStatus(r, f, e, h) ==
    Await(r, [f EXCEPT !.e = StrOf(e), !.pc = "put_271"], "put", h)

\* Lines 266-271: the catch-all handler marks the order cancelled and issues
\* the store update.
Fallback(r, f, e, h) ==
    Await(r, [f EXCEPT !.order.status = "cancelled", !.e = StrOf(e), !.pc = "put_271"],
          "put", h)

\* Lines 77-105: a request arrives.  With a known key the stored order is
\* fetched (line 83); otherwise the order is built and POSTed (line 105).
Begin(r) ==
    /\ frame[r].pc = "idle"
    /\ \E key \in KeyInputs :
         IF IdempotencyHit(IDEMPOTENCY, key)
         THEN Await(r, [frame[r] EXCEPT !.x_idempotency_key = key,
                                        !.oid = IDEMPOTENCY[key],
                                        !.pc = "get_83"],
                    "get", [hist[r] EXCEPT !.replay = TRUE])
         ELSE Await(r, [frame[r] EXCEPT !.x_idempotency_key = key,
                                        !.oid = r,
                                        !.order = NewOrder(r),
                                        !.pc = "post_105"],
                    "create", hist[r])
    /\ UNCHANGED <<IDEMPOTENCY, store, keylog>>

\* Lines 83-84: the GET of a replayed request returns.
Replay(r) ==
    /\ frame[r].pc = "get_83"
    /\ \E out \in Plain \cup Faults :
         IF out.kind = "ok"
         THEN Respond(r, frame[r], Created(store[frame[r].oid]), hist[r])
         ELSE Respond(r, frame[r], Unhandled, hist[r])
    /\ UNCHANGED <<IDEMPOTENCY, store, keylog>>

\* Persist with line 107-108 moved before the POST of line 105: the key is
\* recorded whether or not the order was persisted.
Persist_RecordsFirst(r) ==
    LET f == frame[r]
        key == f.x_idempotency_key
    IN
    /\ f.pc = "post_105"
    /\ IF Truthy(key)
       THEN /\ IDEMPOTENCY' = IdempotencyRecord(IDEMPOTENCY, key, f.oid)
            /\ keylog' = [keylog EXCEPT
                  ![key].writes = @ + 1,
                  ![key].first_oid = IF @ = 0 THEN f.oid ELSE @]
       ELSE UNCHANGED <<IDEMPOTENCY, keylog>>
    /\ \E out \in Plain \cup Faults :
         IF out.kind = "ok"
         THEN /\ store' = StoreWrite(store, f.oid, f.order)
              /\ Await(r, [f EXCEPT !.pc = "reserve_120"], "reserve",
                       [hist[r] EXCEPT !.persisted = TRUE])
         ELSE /\ Respond(r, f, Unhandled, hist[r])
              /\ UNCHANGED store

\* Lines 105-120: the POST of the new order returns; the key is recorded and
\* the reserve call is issued.
Persist(r) ==
    LET f == frame[r]
        key == f.x_idempotency_key
    IN
    /\ f.pc = "post_105"
    /\ \E out \in Plain \cup Faults :
         IF out.kind = "ok"
         THEN /\ store' = StoreWrite(store, f.oid, f.order)
              /\ IF Truthy(key)
                 THEN /\ IDEMPOTENCY' = IdempotencyRecord(IDEMPOTENCY, key, f.oid)
                      /\ keylog' = [keylog EXCEPT
                            ![key].writes = @ + 1,
                            ![key].first_oid = IF @ = 0 THEN f.oid ELSE @]
                 ELSE UNCHANGED <<IDEMPOTENCY, keylog>>
              /\ Await(r, [f EXCEPT !.pc = "reserve_120"], "reserve",
                       [hist[r] EXCEPT !.persisted = TRUE])
         ELSE /\ Respond(r, f, Unhandled, hist[r])
              /\ UNCHANGED <<IDEMPOTENCY, store, keylog>>

\* Reserve with the retry decorator of lines 67-68 switched on: a transport
\* fault re-issues the call, up to three attempts.
Reserve_Retrying(r) ==
    LET f == frame[r] IN
    /\ f.pc = "reserve_120"
    /\ \E out \in ReserveResponses \cup Faults :
         LET h == [hist[r] EXCEPT !.reserve = out] IN
         CASE out.kind = "ok" ->
                Await(r, [f EXCEPT !.reservation_id = ReservationIdOf(out),
                                   !.pc = "payment_143"], "payment", h)
           [] out.kind = "status" ->
                Await(r, [f EXCEPT !.status = out.code,
                                   !.upstream_detail = UpstreamDetail(out),
                                   !.order.status = "cancelled",
                                   !.pc = "put_132"], "put", h)
           [] OTHER ->
                IF calls[r].reserve < 3
                THEN Await(r, f, "reserve", h)
                ELSE Fallback(r, f, out, h)
    /\ UNCHANGED <<IDEMPOTENCY, store, keylog>>

\* Lines 120-143: the reserve call returns.
Reserve(r) ==
    LET f == frame[r] IN
    /\ f.pc = "reserve_120"
    /\ \E out \in ReserveResponses \cup Faults :
         LET h == [hist[r] EXCEPT !.reserve = out] IN
         CASE out.kind = "ok" ->
                Await(r, [f EXCEPT !.reservation_id = ReservationIdOf(out),
                                   !.pc = "payment_143"], "payment", h)
           [] out.kind = "status" ->
                Await(r, [f EXCEPT !.status = out.code,
                                   !.upstream_detail = UpstreamDetail(out),
                                   !.order.status = "cancelled",
                                   !.pc = "put_132"], "put", h)
           [] OTHER -> Fallback(r, f, out, h)
    /\ UNCHANGED <<IDEMPOTENCY, store, keylog>>

\* Lines 132-138: the store update after a rejected reservation returns.
ReserveFailed(r) ==
    LET f == frame[r] IN
    /\ f.pc = "put_132"
    /\ \E out \in Plain \cup Faults :
         /\ store' = IF out.kind = "ok" THEN StoreWrite(store, f.oid, f.order) ELSE store
         /\ Respond(r, f, StepError("inventory", f.status, f.upstream_detail),
                    [hist[r] EXCEPT !.put = out.kind])
    /\ UNCHANGED <<IDEMPOTENCY, keylog>>

\* Lines 143-190: the payment call returns.
Payment(r) ==
    LET f == frame[r] IN
    /\ f.pc = "payment_143"
    /\ \E out \in PaymentResponses \cup Faults :
         LET h == [hist[r] EXCEPT !.payment = out] IN
         CASE out.kind = "status" ->
                Await(r, [f EXCEPT !.status = out.code,
                                   !.upstream_detail = UpstreamDetail(out),
                                   !.order.status = "cancelled",
                                   !.pc = "put_154"], "put", h)
           [] out.kind = "error" -> Fallback(r, f, out, h)
           [] out.kind = "ok" /\ ~out.is_dict ->
                Await(r, [f EXCEPT !.pc = "shipment_190"], "shipment", h)
           [] out.kind = "ok" /\ out.is_dict /\ out.status # None /\ ~out.status_is_str ->
                \* line 169: .lower() on a non-string raises AttributeError
                Fallback(r, f, OtherError("AttributeError"), h)
           [] OTHER ->
                IF PaymentSucceeded(PStatusOf(out))
                THEN Await(r, [f EXCEPT !.payment_id = out.id,
                                        !.pc = "shipment_190"], "shipment", h)
                ELSE Await(r, [f EXCEPT !.payment_id = out.id,
                                        !.pay_resp = out,
                                        !.order.status = "cancelled",
                                        !.pc = "put_176"], "put", h)
    /\ UNCHANGED <<IDEMPOTENCY, store, keylog>>

\* PaymentFailed without the `if reservation_id` guard of line 157: the
\* release is issued whatever the marker holds.
PaymentFailed_Unguarded(r) ==
    LET f == frame[r] IN
    /\ f.pc = "put_154"
    /\ \E out \in Plain \cup Faults :
         /\ store' = IF out.kind = "ok" THEN StoreWrite(store, f.oid, f.order) ELSE store
         /\ Await(r, [f EXCEPT !.pc = "release_159"], "release",
                  [hist[r] EXCEPT !.put = out.kind])
    /\ UNCHANGED <<IDEMPOTENCY, keylog>>

\* Lines 154-165: the store update after a rejected payment returns.
PaymentFailed(r) ==
    LET f == frame[r] IN
    /\ f.pc = "put_154"
    /\ \E out \in Plain \cup Faults :
         /\ store' = IF out.kind = "ok" THEN StoreWrite(store, f.oid, f.order) ELSE store
         /\ IF Truthy(f.reservation_id)
            THEN Await(r, [f EXCEPT !.pc = "release_159"], "release",
                       [hist[r] EXCEPT !.put = out.kind])
            ELSE Respond(r, f, StepError("payment", f.status, f.upstream_detail),
                         [hist[r] EXCEPT !.put = out.kind])
    /\ UNCHANGED <<IDEMPOTENCY, keylog>>

\* Lines 159-165: the release after a rejected payment returns.
PaymentFailedReleased(r) ==
    LET f == frame[r] IN
    /\ f.pc = "release_159"
    /\ \E out \in Plain \cup Faults :
         Respond(r, f, StepError("payment", f.status, f.upstream_detail), hist[r])
    /\ UNCHANGED <<IDEMPOTENCY, store, keylog>>

\* Lines 176-185: the store update after a declined payment returns.
PaymentDeclinedStored(r) ==
    LET f == frame[r] IN
    /\ f.pc = "put_176"
    /\ \E out \in Plain \cup Faults :
         /\ store' = IF out.kind = "ok" THEN StoreWrite(store, f.oid, f.order) ELSE store
         /\ IF Truthy(f.reservation_id)
            THEN Await(r, [f EXCEPT !.pc = "release_181"], "release",
                       [hist[r] EXCEPT !.put = out.kind])
            ELSE Respond(r, f, PaymentDeclined(f.pay_resp, PStatusOf(f.pay_resp)),
                         [hist[r] EXCEPT !.put = out.kind])
    /\ UNCHANGED <<IDEMPOTENCY, keylog>>

\* Lines 181-185: the release after a declined payment returns.
PaymentDeclinedReleased(r) ==
    LET f == frame[r] IN
    /\ f.pc = "release_181"
    /\ \E out \in Plain \cup Faults :
         Respond(r, f, PaymentDeclined(f.pay_resp, PStatusOf(f.pay_resp)), hist[r])
    /\ UNCHANGED <<IDEMPOTENCY, store, keylog>>

\* Lines 190-255: the shipment call returns.
Shipment(r) ==
    LET f == frame[r] IN
    /\ f.pc = "shipment_190"
    /\ \E out \in ShipmentResponses \cup Faults :
         LET h == [hist[r] EXCEPT !.shipment = out] IN
         CASE out.kind = "ok" ->
                LET sid == ShipmentIdOf(out) IN
                Await(r, [f EXCEPT !.shipment_id = sid,
                                   !.order = MarkCompleted(f.order, f.reservation_id,
                                                           f.payment_id, sid),
                                   !.pc = "put_255"], "put", h)
           [] out.kind = "status" ->
                LET g == [f EXCEPT !.status = out.code,
                                   !.upstream_detail = UpstreamDetail(out),
                                   !.refund_success = FALSE,
                                   !.refund_error = None]
                IN IF Truthy(f.payment_id)
                   THEN Await(r, [g EXCEPT !.pc = "refund_206"], "refund", h)
                   ELSE Await(r, [g EXCEPT !.order = MarkFailedShipping(g.order, g.payment_id,
                                                  g.refund_success, g.refund_error),
                                           !.pc = "put_226"], "put", h)
           [] OTHER -> Fallback(r, f, out, h)
    /\ UNCHANGED <<IDEMPOTENCY, store, keylog>>

\* RefundOutcome with refund_success = True set whatever the call did.
RefundOutcome_SuccessAssumed(out) == <<TRUE, None>>

\* Lines 207-215: the outcome of the refund call, as (refund_success, refund_error).
RefundOutcome(out) ==
    CASE out.kind = "ok" -> <<TRUE, None>>
      [] out.kind = "status" -> <<FALSE, UpstreamDetail(out)>>
      [] OTHER -> <<FALSE, StrOf(out)>>

\* Lines 206-226: the refund after a rejected shipment returns.
ShipmentRefund(r) ==
    LET f == frame[r] IN
    /\ f.pc = "refund_206"
    /\ \E out \in Plain \cup Faults :
         LET ro == RefundOutcome(out) IN
         Await(r, [f EXCEPT !.refund_success = ro[1],
                            !.refund_error = ro[2],
                            !.order = MarkFailedShipping(f.order, f.payment_id, ro[1], ro[2]),
                            !.pc = "put_226"], "put",
               [hist[r] EXCEPT !.refund = out.kind])
    /\ UNCHANGED <<IDEMPOTENCY, store, keylog>>

\* ShipmentFailed without the try/except of lines 225-228: a failed store
\* update reaches the catch-all handler.
ShipmentFailed_Propagating(r) ==
    LET f == frame[r] IN
    /\ f.pc = "put_226"
    /\ \E out \in Plain \cup Faults :
         IF out.kind = "ok"
         THEN /\ store' = StoreWrite(store, f.oid, f.order)
              /\ IF Truthy(f.reservation_id)
                 THEN Await(r, [f EXCEPT !.pc = "release_233"], "release",
                            [hist[r] EXCEPT !.put = out.kind])
                 ELSE Respond(r, f, ShippingError(f.upstream_detail, f.refund_success,
                                                  f.refund_error),
                              [hist[r] EXCEPT !.put = out.kind])
         ELSE /\ Fallback(r, f, out, [hist[r] EXCEPT !.put = out.kind])
              /\ UNCHANGED store
    /\ UNCHANGED <<IDEMPOTENCY, keylog>>

\* Lines 226-244: the store update after a rejected shipment returns.
ShipmentFailed(r) ==
    LET f == frame[r] IN
    /\ f.pc = "put_226"
    /\ \E out \in Plain \cup Faults :
         /\ store' = IF out.kind = "ok" THEN StoreWrite(store, f.oid, f.order) ELSE store
         /\ IF Truthy(f.reservation_id)
            THEN Await(r, [f EXCEPT !.pc = "release_233"], "release",
                       [hist[r] EXCEPT !.put = out.kind])
            ELSE Respond(r, f, ShippingError(f.upstream_detail, f.refund_success, f.refund_error),
                         [hist[r] EXCEPT !.put = out.kind])
    /\ UNCHANGED <<IDEMPOTENCY, keylog>>

\* ShipmentFailedReleased without the `except HTTPException: raise` of lines
\* 263-265: the 502 of line 244 is caught by the catch-all handler.
ShipmentFailedReleased_CaughtAgain(r) ==
    LET f == frame[r] IN
    /\ f.pc = "release_233"
    /\ \E out \in Plain \cup Faults :
         Fallback(r, f, OtherError("HTTPException"), hist[r])
    /\ UNCHANGED <<IDEMPOTENCY, store, keylog>>

\* Lines 233-244: the release after a rejected shipment returns.
ShipmentFailedReleased(r) ==
    LET f == frame[r] IN
    /\ f.pc = "release_233"
    /\ \E out \in Plain \cup Faults :
         Respond(r, f, ShippingError(f.upstream_detail, f.refund_success, f.refund_error), hist[r])
    /\ UNCHANGED <<IDEMPOTENCY, store, keylog>>

\* Lines 255-261, 287: the store update of the completed order returns.  Any
\* exception here is outside the inner try blocks and reaches line 266.
Finalize(r) ==
    LET f == frame[r] IN
    /\ f.pc = "put_255"
    /\ \E out \in Plain \cup Faults :
         LET h == [hist[r] EXCEPT !.put = out.kind, !.final_put = out.kind] IN
         IF out.kind = "ok"
         THEN /\ store' = StoreWrite(store, f.oid, f.order)
              /\ IF Truthy(f.reservation_id)
                 THEN Await(r, [f EXCEPT !.pc = "commit_259"], "commit", h)
                 ELSE Respond(r, f, Created(f.order), h)
         ELSE /\ Fallback(r, f, out, h)
              /\ UNCHANGED store
    /\ UNCHANGED <<IDEMPOTENCY, keylog>>

\* Commit without the try/except of lines 258-261: a failed commit reaches
\* the catch-all handler.
Commit_Propagating(r) ==
    LET f == frame[r] IN
    /\ f.pc = "commit_259"
    /\ \E out \in Plain \cup Faults :
         LET h == [hist[r] EXCEPT !.commit = out.kind] IN
         IF out.kind = "ok"
         THEN Respond(r, f, Created(f.order), h)
         ELSE Fallback(r, f, out, h)
    /\ UNCHANGED <<IDEMPOTENCY, store, keylog>>

\* Lines 259-261, 287: the commit of the reservation returns; a failure of
\* it is swallowed and the order is returned.
Commit(r) ==
    LET f == frame[r] IN
    /\ f.pc = "commit_259"
    /\ \E out \in Plain \cup Faults :
         Respond(r, f, Created(f.order), [hist[r] EXCEPT !.commit = out.kind])
    /\ UNCHANGED <<IDEMPOTENCY, store, keylog>>

\* Lines 271-285: the store update of the catch-all handler returns.  The
\* release and the refund sit inside the try block of this update.
FallbackStored(r) ==
    LET f == frame[r] IN
    /\ f.pc = "put_271"
    /\ \E out \in Plain \cup Faults :
         LET h == [hist[r] EXCEPT !.put = out.kind] IN
         IF out.kind = "ok"
         THEN /\ store' = StoreWrite(store, f.oid, f.order)
              /\ CASE Truthy(f.reservation_id) ->
                        Await(r, [f EXCEPT !.pc = "release_274"], "release", h)
                   [] ~Truthy(f.reservation_id) /\ Truthy(f.payment_id) ->
                        Await(r, [f EXCEPT !.pc = "refund_280"], "refund", h)
                   [] OTHER -> Respond(r, f, FinalizationError(f.e), h)
         ELSE /\ Respond(r, f, FinalizationError(f.e), h)
              /\ UNCHANGED store
    /\ UNCHANGED <<IDEMPOTENCY, keylog>>

\* Lines 274-285: the release of the catch-all handler returns.
FallbackReleased(r) ==
    LET f == frame[r] IN
    /\ f.pc = "release_274"
    /\ \E out \in Plain \cup Faults :
         IF Truthy(f.payment_id)
         THEN Await(r, [f EXCEPT !.pc = "refund_280"], "refund", hist[r])
         ELSE Respond(r, f, FinalizationError(f.e), hist[r])
    /\ UNCHANGED <<IDEMPOTENCY, store, keylog>>

\* Lines 280-285: the refund of the catch-all handler returns.
FallbackRefunded(r) ==
    LET f == frame[r] IN
    /\ f.pc = "refund_280"
    /\ \E out \in Plain \cup Faults :
         Respond(r, f, FinalizationError(f.e), [hist[r] EXCEPT !.refund = out.kind])
    /\ UNCHANGED <<IDEMPOTENCY, store, keylog>>

----------------------------------------------------------------------------
(* Specifications                                                          *)

\* Spec: one request, followed through every outcome of every downstream
\* call.  What a request does after line 108 reads and writes only its own
\* locals and its own order, so one request shows all there is to a saga run.
Solo == {1}

Next ==
    \E r \in Solo :
        \/ Begin(r)
        \/ Persist(r)
        \/ Reserve(r)
        \/ ReserveFailed(r)
        \/ Payment(r)
        \/ PaymentFailed(r)
        \/ PaymentFailedReleased(r)
        \/ PaymentDeclinedStored(r)
        \/ PaymentDeclinedReleased(r)
        \/ Shipment(r)
        \/ ShipmentRefund(r)
        \/ ShipmentFailed(r)
        \/ ShipmentFailedReleased(r)
        \/ Finalize(r)
        \/ Commit(r)
        \/ FallbackStored(r)
        \/ FallbackReleased(r)
        \/ FallbackRefunded(r)

Spec == Init /\ [][Next]_vars

\* Every downstream call eventually returns: a suspended handler is resumed.
FairSpec == Spec /\ WF_vars(Next)

\* SpecConcurrent: MaxRequests requests interleaved at the awaits of lines 83
\* and 105, which bracket the accesses to IDEMPOTENCY (lines 79-80 and 108).
\* A request that has issued its reserve call (line 120) is left suspended.
NextConcurrent ==
    \E r \in Runs :
        \/ Begin(r)
        \/ Replay(r)
        \/ Persist(r)

SpecConcurrent == Init /\ [][NextConcurrent]_vars

----------------------------------------------------------------------------
(* Vocabulary of the claims                                                *)

Terminal == {"completed", "cancelled", "failed_shipping"}

Done(r) == frame[r].pc = "done"

\* The reserve call returned success with a reservation id.
ReservedWithId(r) == hist[r].reserve.kind = "ok" /\ hist[r].reserve.id \notin {None, ""}

\* The payment call returned a response reporting business status completed/success.
PaidBusinessSuccess(r) ==
    /\ hist[r].payment.kind = "ok"
    /\ hist[r].payment.is_dict
    /\ hist[r].payment.status_is_str
    /\ hist[r].payment.status \in {"completed", "success", "COMPLETED", "SUCCESS"}

PaidWithId(r) == PaidBusinessSuccess(r) /\ hist[r].payment.id \notin {None, ""}

\* The payment step failed in one of the three ways of the specification:
\* no response, an HTTP error status, a non-success business status.
PaymentFailedThreeWays(r) ==
    \/ hist[r].payment.kind \in {"error", "status"}
    \/ /\ hist[r].payment.kind = "ok"
       /\ hist[r].payment.is_dict
       /\ hist[r].payment.status_is_str \/ hist[r].payment.status = None
       /\ hist[r].payment.status \notin {"completed", "success", "COMPLETED", "SUCCESS"}

IsClientCode(code) == 400 <= code /\ code < 500

----------------------------------------------------------------------------
(* Claims                                                                  *)

\* C1: in a finished run whose reserve call returned a reservation id and
\* whose payment step failed (no response, HTTP error status, or non-success
\* business status), the order is 'cancelled' and exactly one release call
\* was issued, whatever the store update did.
C1_PaymentFailureReleasesOnce ==
    \A r \in Runs :
        (Done(r) /\ ReservedWithId(r) /\ PaymentFailedThreeWays(r))
            => /\ frame[r].order.status = "cancelled"
               /\ calls[r].release = 1

\* C2: in a finished run where reservation and payment succeeded (payment id
\* obtained) and the shipment call failed (HTTP error status or no response),
\* the order is 'failed_shipping' and exactly one refund call was issued.
C2_ShipmentFailureRefundsOnce ==
    \A r \in Runs :
        (Done(r) /\ hist[r].reserve.kind = "ok" /\ PaidWithId(r)
                 /\ hist[r].shipment.kind \in {"status", "error"})
            => /\ frame[r].order.status = "failed_shipping"
               /\ calls[r].refund = 1

\* The refund of the shipping-failure compensation (lines 200-244) has returned.
RefundAttempted(r) ==
    /\ hist[r].shipment.kind = "status"
    /\ hist[r].refund # "none"

C4_ReserveRejected ==
    \A r \in Runs :
        (hist[r].reserve.kind = "status" /\ IsClientCode(hist[r].reserve.code))
            => /\ calls[r].payment = 0 /\ calls[r].shipment = 0
               /\ calls[r].release = 0 /\ calls[r].refund = 0
               /\ frame[r].order.status = "cancelled"
               /\ Done(r) =>
                    /\ response[r].status_code = hist[r].reserve.code
                    /\ response[r].detail =
                         << IF hist[r].reserve.json_detail # None
                            THEN hist[r].reserve.json_detail
                            ELSE hist[r].reserve.text >>

C4_Witness ==
    \E r \in Runs :
        /\ Done(r) /\ hist[r].reserve.kind = "status"
        /\ response[r].status_code = 409
        /\ response[r].detail = <<"Insufficient stock">>

\* C5: a request that found its key in IDEMPOTENCY issues a read of the
\* order store and no other call, and the order it returns carries the order
\* id first recorded for that key.
C5_ReplayReturnsSameOrder ==
    \A r \in Runs :
        (Done(r) /\ hist[r].replay)
            => /\ calls[r] = [InitCalls EXCEPT !.get = 1]
               /\ response[r].status_code = 201
                    => response[r].body.id = keylog[frame[r].x_idempotency_key].first_oid

\* C6: for every key, IDEMPOTENCY[key] is assigned at most once, at most one
\* order is created in the store by requests carrying the key, and at most
\* one of them issues the reserve call.
C6_FirstWriterWins ==
    \A k \in Keys :
        /\ keylog[k].writes <= 1
        /\ Cardinality({r \in Runs : frame[r].x_idempotency_key = k /\ hist[r].persisted}) <= 1
        /\ Cardinality({r \in Runs : frame[r].x_idempotency_key = k /\ calls[r].reserve > 0}) <= 1

\* The forward step a run failed at, and the response of that call.
PrimaryFailure(r) ==
    CASE hist[r].reserve.kind \in {"status", "error"} -> <<"reserve", hist[r].reserve>>
      [] hist[r].payment.kind \in {"status", "error"} -> <<"payment", hist[r].payment>>
      [] hist[r].payment.kind = "ok" /\ hist[r].payment.is_dict /\ ~PaidBusinessSuccess(r)
            -> <<"payment", hist[r].payment>>
      [] hist[r].shipment.kind \in {"status", "error"} -> <<"shipment", hist[r].shipment>>
      [] OTHER -> <<"none", NoCall>>

\* What the primary failure alone lets the caller and the order expect.
PrimaryOutcome(step, out) ==
    [status_code |->
        CASE out.kind = "error" -> 500
          [] out.kind = "status" /\ step = "shipment" -> 502
          [] out.kind = "status" -> IF IsClientCode(out.code) THEN out.code ELSE 502
          [] OTHER -> IF out.status_is_str \/ out.status = None THEN 402 ELSE 500,
     order_status |->
        IF step = "shipment" /\ out.kind = "status" THEN "failed_shipping" ELSE "cancelled"]

\* C7: in a finished run that failed at reserve, payment or shipment, the
\* status code returned and the order status are those the primary failure
\* determines, whatever the store update, release and refund calls returned.
C7_CompensationNeverMasks ==
    \A r \in Runs :
        LET pf == PrimaryFailure(r) IN
        (Done(r) /\ pf[1] # "none")
            => /\ response[r].status_code = PrimaryOutcome(pf[1], pf[2]).status_code
               /\ frame[r].order.status = PrimaryOutcome(pf[1], pf[2]).order_status

C7_Witness ==
    \E r \in Runs :
        /\ Done(r)
        /\ PrimaryFailure(r)[1] = "shipment"
        /\ hist[r].shipment.kind = "status"
        /\ hist[r].refund \in {"status", "error"}
        /\ hist[r].put \in {"status", "error"}
        /\ calls[r].release = 1

\* The forward calls and the final store update all returned success.
AllSucceeded(r) ==
    /\ hist[r].reserve.kind = "ok"
    /\ PaidBusinessSuccess(r)
    /\ hist[r].shipment.kind = "ok"
    /\ hist[r].final_put = "ok"

C9_StoreTerminalAsStated ==
    \A r \in Runs :
        (Done(r) /\ hist[r].persisted) => store[frame[r].oid].status \in Terminal

\* C9 amended: when every downstream call eventually returns, a run whose
\* initial record was persisted eventually finishes; when it has finished the
\* handler's order has a terminal status, and the order store holds that
\* status if the run's last store update succeeded.
C9_FinishesTerminal ==
    /\ [](\A r \in Runs :
            (Done(r) /\ hist[r].persisted)
                => /\ frame[r].order.status \in Terminal
                   /\ hist[r].put # "none"
                   /\ hist[r].put = "ok"
                        => store[frame[r].oid].status = frame[r].order.status)
    /\ \A r \in Runs : hist[r].persisted ~> Done(r)

C9_Witness ==
    \E r \in Runs :
        /\ Done(r) /\ hist[r].persisted
        /\ hist[r].put \in {"status", "error"}
        /\ frame[r].order.status = "cancelled"
        /\ store[frame[r].oid].status = "created"

\* C10: once the order's status, in the handler's draft or in the store, is
\* 'completed', 'cancelled' or 'failed_shipping', no step changes it.
C10_TerminalStatusKept ==
    [][\A r \in Runs :
          /\ frame[r].order.status \in Terminal
                => frame'[r].order.status = frame[r].order.status
          /\ (frame[r].oid \in DOMAIN store /\ store[frame[r].oid].status \in Terminal)
                => store'[frame[r].oid].status = store[frame[r].oid].status]_vars

\* The run went through the catch-all handler (lines 266-285).
InCatchAll(r) == frame[r].e # None

\* C11: a finished run that went through the catch-all handler has the order
\* 'cancelled', has issued a release if it held a reservation id and a refund
\* if it held a payment id, whatever the store update and the other
\* compensation did, and answers 500.
C11_CatchAllCompensates ==
    \A r \in Runs :
        (Done(r) /\ InCatchAll(r))
            => /\ frame[r].order.status = "cancelled"
               /\ Truthy(frame[r].reservation_id) => calls[r].release = 1
               /\ Truthy(frame[r].payment_id) => calls[r].refund = 1
               /\ response[r].status_code = 500

\* C12: in a finished run whose reserve, payment or shipment call failed
\* with a 5xx status or with no response, the caller gets 502 (not 500); when
\* it failed with a 4xx status the caller gets that status and the upstream
\* detail.
C12_FaultClassification ==
    \A r \in Runs :
        LET pf == PrimaryFailure(r)
            out == pf[2]
        IN
        (Done(r) /\ pf[1] # "none" /\ out.kind \in {"status", "error"})
            => IF out.kind = "status" /\ IsClientCode(out.code)
               THEN /\ response[r].status_code = out.code
                    /\ response[r].detail =
                         << IF out.json_detail # None THEN out.json_detail ELSE out.text >>
               ELSE response[r].status_code = 502

\* C13: the shipment call is issued only after a payment response reporting
\* business status completed/success; a 2xx payment response that reports no
\* such status ends the run with the order 'cancelled', the payment-failure
\* error 402 and no shipment call.
C13_ShipmentOnlyAfterBusinessSuccess ==
    \A r \in Runs :
        /\ calls[r].shipment > 0 => PaidBusinessSuccess(r)
        /\ (Done(r) /\ hist[r].payment.kind = "ok" /\ ~PaidBusinessSuccess(r))
              => /\ frame[r].order.status = "cancelled"
                 /\ response[r].status_code = 402
                 /\ calls[r].shipment = 0

\* The id a successful forward call returned (None: the call did not return
\* success, or its response carried no id).
ReturnedId(out) == IF out.kind = "ok" /\ out.is_dict THEN out.id ELSE None

\* C14: in every state each progress marker of the run is present exactly
\* when the corresponding forward call has returned success with an id, and
\* then it is that id, never one the handler generated.
C14_MarkersFromCalls ==
    \A r \in Runs :
        /\ frame[r].reservation_id = ReturnedId(hist[r].reserve)
        /\ frame[r].payment_id = ReturnedId(hist[r].payment)
        /\ frame[r].shipment_id = ReturnedId(hist[r].shipment)
        /\ frame[r].order.reservationId \in {None, ReturnedId(hist[r].reserve)}
        /\ frame[r].order.paymentIntentId \in {None, ReturnedId(hist[r].payment)}
        /\ frame[r].order.shipmentId \in {None, ReturnedId(hist[r].shipment)}

\* C15: a finished run whose POST of the initial record failed has answered
\* with an error, has issued no call but that POST, and has left no entry
\* for its key in IDEMPOTENCY.
C15_PersistFailureStops ==
    \A r \in Runs :
        (Done(r) /\ ~hist[r].replay /\ ~hist[r].persisted)
            => /\ response[r].status_code >= 400
               /\ calls[r] = [InitCalls EXCEPT !.create = 1]
               /\ frame[r].x_idempotency_key \notin DOMAIN IDEMPOTENCY
               /\ frame[r].oid \notin DOMAIN store

C15_Witness ==
    \E r \in Runs :
        /\ Done(r) /\ ~hist[r].persisted
        /\ frame[r].x_idempotency_key = "k1"
        /\ calls[r].create = 1
        /\ response[r].status_code = 500

\* The commit call of the run was issued and failed.
CommitFailed(r) == hist[r].commit \in {"status", "error"}

\* C16: a run whose 'completed' update was stored and whose commit call then
\* failed returns the completed order with 201, leaves the stored status
\* 'completed', and issues neither a release nor a refund.
C16_CommitFailureKeepsCompleted ==
    \A r \in Runs :
        (Done(r) /\ CommitFailed(r))
            => /\ hist[r].final_put = "ok"
               /\ response[r].status_code = 201
               /\ response[r].body.status = "completed"
               /\ frame[r].oid \in DOMAIN store
               /\ store[frame[r].oid].status = "completed"
               /\ calls[r].release = 0
               /\ calls[r].refund = 0

C16_Witness ==
    \E r \in Runs :
        /\ Done(r)
        /\ hist[r].commit = "error"
        /\ calls[r].commit = 1
        /\ store[frame[r].oid].status = "completed"

\* C17: in every state, a release has been issued only if the reserve call
\* of the run returned success with a reservation id, and a refund has been
\* issued only if the payment call returned success with a payment id.
C17_CompensationsGuarded ==
    \A r \in Runs :
        /\ calls[r].release > 0 => ReturnedId(hist[r].reserve) # None
        /\ calls[r].refund > 0 => ReturnedId(hist[r].payment) # None

\* A failed shipment after a reservation with an id and a payment that
\* returned no id: the release goes out, the refund does not.
C17_Witness ==
    \E r \in Runs :
        /\ Done(r)
        /\ ReturnedId(hist[r].reserve) # None
        /\ hist[r].payment.kind = "ok"
        /\ ReturnedId(hist[r].payment) = None
        /\ hist[r].shipment.kind = "status"
        /\ calls[r].release = 1
        /\ calls[r].refund = 0

\* C18: in every state the reserve, payment and shipment calls of a run
\* have each been issued at most once, whatever they returned; the payment
\* call has been issued only after the reserve call returned success, and
\* the shipment call only after the payment call returned success.
C18_ForwardCallsOnceInOrder ==
    \A r \in Runs :
        /\ calls[r].reserve <= 1
        /\ calls[r].payment <= 1
        /\ calls[r].shipment <= 1
        /\ calls[r].payment > 0 => hist[r].reserve.kind = "ok"
        /\ calls[r].shipment > 0 => hist[r].payment.kind = "ok"
        /\ calls[r].reserve > 0 => hist[r].persisted

\* A run whose reserve call hit a transport fault: one reserve call, no
\* payment, no shipment.
C18_Witness ==
    \E r \in Runs :
        /\ Done(r)
        /\ hist[r].reserve.kind = "error"
        /\ calls[r].reserve = 1
        /\ calls[r].payment = 0
        /\ calls[r].shipment = 0

\* The shipment-create call of the run returned success.
ShipmentCreated(r) == hist[r].shipment.kind = "ok"

\* C19: in every state, a run whose shipment-create call succeeded has
\* issued no refund and no release.
C19_NoUndoAfterShipment ==
    \A r \in Runs :
        ShipmentCreated(r)
            => /\ calls[r].refund = 0
               /\ calls[r].release = 0

\* C20: in every state a run has issued at most one release, at most one
\* commit and at most one refund, and never both a release and a commit.
C20_OneUndoOrOneCommit ==
    \A r \in Runs :
        /\ calls[r].release <= 1
        /\ calls[r].commit <= 1
        /\ calls[r].refund <= 1
        /\ calls[r].release + calls[r].commit <= 1

\* A failed shipment after a reservation and a payment with ids: one
\* release, one refund, no commit.
C20_Witness ==
    \E r \in Runs :
        /\ Done(r)
        /\ hist[r].shipment.kind = "status"
        /\ calls[r].release = 1
        /\ calls[r].refund = 1
        /\ calls[r].commit = 0

====
